---- MODULE Spec2Model ----
(***************************************************************************)
(* Model of the collision layer of gecl (src/src/collision.rs) and of the  *)
(* shape accessors it uses (point.rs, vector.rs, size.rs, rect.rs,         *)
(* circle.rs).                                                             *)
(*                                                                         *)
(* The predicates are pure functions of two shapes.  A behaviour draws an  *)
(* ordered pair of shapes (lhs, rhs) of an implemented pair of kinds and   *)
(* then applies one method of the matching `impl Collision<..> for ..`     *)
(* block; the method applied and the boolean it returned are recorded in   *)
(* `op` and `result`.                                                      *)
(*                                                                         *)
(* The scalar type T is modelled by the integers (the repository's tests   *)
(* instantiate T = i32).  All coordinates, sizes and radii are drawn from  *)
(* small ranges, so no intermediate value of any predicate leaves the      *)
(* range of i32 and the arithmetic is the mathematical one.                *)
(***************************************************************************)
EXTENDS Integers

VARIABLES lhs, rhs, op, result

vars == <<lhs, rhs, op, result>>

\* Coordinates 0..MaxCoord, radii -1..MaxRadius, size components -1..MaxSize.
MaxCoord == 4
MaxRadius == 5
MaxSize == 2

Coords == 0..MaxCoord
Radii == (-1)..MaxRadius
SizeComps == (-1)..MaxSize

----------------------------------------------------------------------------
\* Shape data layer

\* point.rs: Point { x, y }
Point(x, y) == [x |-> x, y |-> y]

\* vector.rs: Vector { x, y }
Vector(x, y) == [x |-> x, y |-> y]

vector(x, y) == Vector(x, y)

\* size.rs: Size { width, height }
Size(width, height) == [width |-> width, height |-> height]

\* size.rs: impl From<Vector<T>> for Size<T>
Size_from_Vector(src) == Size(src.x, src.y)

\* point.rs: Point + U where U: Into<Size>
Point_add_Size(self, s) == Point(self.x + s.width, self.y + s.height)

\* point.rs: Point + Vector goes through Into<Size>
Point_add_Vector(self, v) == Point_add_Size(self, Size_from_Vector(v))

\* point.rs: Point - Point = Vector
Point_sub_Point(self, p) == Vector(self.x - p.x, self.y - p.y)

\* point.rs: Point - Vector = Point
Point_sub_Vector(self, v) == Point(self.x - v.x, self.y - v.y)

\* The three shape kinds the collision layer is implemented for.
PointShape(x, y) == [kind |-> "Point", x |-> x, y |-> y]

Circle(center, radius) == [kind |-> "Circle", center |-> center, radius |-> radius]

Rect(origin, size) == [kind |-> "Rect", origin |-> origin, size |-> size]

\* rect.rs: Rect::endpoint
endpoint(self) == Point_add_Size(self.origin, self.size)

Points == {PointShape(x, y) : x \in Coords, y \in Coords}

Circles == {Circle(Point(x, y), r) : x \in Coords, y \in Coords, r \in Radii}

Rects == {Rect(Point(x, y), Size(w, h)) :
            x \in Coords, y \in Coords, w \in SizeComps, h \in SizeComps}

----------------------------------------------------------------------------
\* Collision layer: one operator per method of each impl block

\* impl Collision<Point<T>> for Circle<T>
\* Mutant: the squared distance compared with the radius, not its square.
Circle_is_crossing_Point_Unsquared(self, p) ==
    LET d == Point_sub_Point(self.center, p)
    IN  d.x * d.x + d.y * d.y <= self.radius

\* Mutant: the boundary of the circle excluded.
Circle_is_crossing_Point_Strict(self, p) ==
    LET d == Point_sub_Point(self.center, p)
    IN  d.x * d.x + d.y * d.y < self.radius * self.radius

Circle_is_crossing_Point(self, p) ==
    LET d == Point_sub_Point(self.center, p)
    IN  d.x * d.x + d.y * d.y <= self.radius * self.radius

Circle_contains_Point(self, v) == Circle_is_crossing_Point(self, v)

\* impl Collision<Circle<T>> for Point<T>
Point_is_crossing_Circle(self, c) == Circle_is_crossing_Point(c, self)

\* Mutant: a point "contains" the zero-radius circle centred on it.
Point_contains_Circle_Equal(self, c) ==
    c.radius = 0 /\ c.center.x = self.x /\ c.center.y = self.y

Point_contains_Circle(self, c) == FALSE

\* impl Collision<Circle<T>> for Circle<T>
\* Mutant: only the receiver's radius is used.
Circle_is_crossing_Circle_OwnRadius(self, c) ==
    LET d == Point_sub_Point(self.center, c.center)
        r == self.radius
    IN  d.x * d.x + d.y * d.y <= r * r

\* Mutant: the sum-of-radii test with the boundary excluded.
Circle_is_crossing_Circle_Strict(self, c) ==
    LET d == Point_sub_Point(self.center, c.center)
        r == self.radius + c.radius
    IN  d.x * d.x + d.y * d.y < r * r

Circle_is_crossing_Circle(self, c) ==
    LET d == Point_sub_Point(self.center, c.center)
        r == self.radius + c.radius
    IN  d.x * d.x + d.y * d.y <= r * r

\* Mutant: the radii are compared before the squared difference is used.
Circle_contains_Circle_Guarded(self, v) ==
    LET d == Point_sub_Point(self.center, v.center)
        r == self.radius - v.radius
    IN  self.radius >= v.radius /\ d.x * d.x + d.y * d.y <= r * r

Circle_contains_Circle(self, v) ==
    LET d == Point_sub_Point(self.center, v.center)
        r == self.radius - v.radius
    IN  d.x * d.x + d.y * d.y <= r * r

\* impl Collision<Rect<T>> for Point<T>
\* Mutant: the rectangle is normalized before the comparison.
Point_is_crossing_Rect_Normalized(self, rc) ==
    LET ep == endpoint(rc)
        lo == Point(IF rc.origin.x < ep.x THEN rc.origin.x ELSE ep.x,
                    IF rc.origin.y < ep.y THEN rc.origin.y ELSE ep.y)
        hi == Point(IF rc.origin.x < ep.x THEN ep.x ELSE rc.origin.x,
                    IF rc.origin.y < ep.y THEN ep.y ELSE rc.origin.y)
    IN  /\ self.x >= lo.x
        /\ self.x <= hi.x
        /\ self.y >= lo.y
        /\ self.y <= hi.y

\* Mutant: the far edges of the rectangle excluded.
Point_is_crossing_Rect_HalfOpen(self, rc) ==
    LET ep == endpoint(rc)
    IN  /\ self.x >= rc.origin.x
        /\ self.x < ep.x
        /\ self.y >= rc.origin.y
        /\ self.y < ep.y

Point_is_crossing_Rect(self, rc) ==
    LET ep == endpoint(rc)
    IN  /\ self.x >= rc.origin.x
        /\ self.x <= ep.x
        /\ self.y >= rc.origin.y
        /\ self.y <= ep.y

Point_contains_Rect(self, rc) == FALSE

\* impl Collision<Point<T>> for Rect<T>
Rect_is_crossing_Point(self, p) == Point_is_crossing_Rect(p, self)

\* Mutant: containment of a point with the rectangle's boundary excluded.
Rect_contains_Point_Interior(self, v) ==
    LET ep == endpoint(self)
    IN  /\ v.x > self.origin.x
        /\ v.x < ep.x
        /\ v.y > self.origin.y
        /\ v.y < ep.y

Rect_contains_Point(self, v) == Rect_is_crossing_Point(self, v)

\* impl Collision<Rect<T>> for Rect<T>
\* Mutant: the intervals are compared on the x axis only.
Rect_is_crossing_Rect_XOnly(self, rc) ==
    LET lhs_ep == endpoint(self)
        rhs_ep == endpoint(rc)
    IN  /\ self.origin.x <= rhs_ep.x
        /\ lhs_ep.x >= rc.origin.x

\* Mutant: the first comparison made strict.
Rect_is_crossing_Rect_LeftStrict(self, rc) ==
    LET lhs_ep == endpoint(self)
        rhs_ep == endpoint(rc)
    IN  /\ self.origin.x < rhs_ep.x
        /\ self.origin.y <= rhs_ep.y
        /\ lhs_ep.x >= rc.origin.x
        /\ lhs_ep.y >= rc.origin.y

\* Mutant: all four comparisons made strict (touching does not cross).
Rect_is_crossing_Rect_Strict(self, rc) ==
    LET lhs_ep == endpoint(self)
        rhs_ep == endpoint(rc)
    IN  /\ self.origin.x < rhs_ep.x
        /\ self.origin.y < rhs_ep.y
        /\ lhs_ep.x > rc.origin.x
        /\ lhs_ep.y > rc.origin.y

Rect_is_crossing_Rect(self, rc) ==
    LET lhs_ep == endpoint(self)
        rhs_ep == endpoint(rc)
    IN  /\ self.origin.x <= rhs_ep.x
        /\ self.origin.y <= rhs_ep.y
        /\ lhs_ep.x >= rc.origin.x
        /\ lhs_ep.y >= rc.origin.y

\* Mutant: the inner rectangle's origin used where its endpoint is meant.
Rect_contains_Rect_OriginOnly(self, v) ==
    LET self_ep == endpoint(self)
    IN  /\ self.origin.x <= v.origin.x
        /\ self.origin.y <= v.origin.y
        /\ self_ep.x >= v.origin.x
        /\ self_ep.y >= v.origin.y

Rect_contains_Rect(self, v) ==
    LET self_ep == endpoint(self)
        v_ep == endpoint(v)
    IN  /\ self.origin.x <= v.origin.x
        /\ self.origin.y <= v.origin.y
        /\ self_ep.x >= v_ep.x
        /\ self_ep.y >= v_ep.y

\* impl Collision<Circle<T>> for Rect<T>
\* Mutant: a centre on the edge of the inflated box is rejected too.
FastReject_Closed(self, c) ==
    LET r == vector(c.radius, c.radius)
        center == c.center
        origin == Point_sub_Vector(self.origin, r)
        ep == Point_add_Vector(endpoint(self), r)
    IN  \/ origin.x >= center.x
        \/ origin.y >= center.y
        \/ ep.x <= center.x
        \/ ep.y <= center.y

\* Mutant: the inflated box is compared on the x axis only.
FastReject_XOnly(self, c) ==
    LET r == vector(c.radius, c.radius)
        center == c.center
        origin == Point_sub_Vector(self.origin, r)
        ep == Point_add_Vector(endpoint(self), r)
    IN  \/ origin.x > center.x
        \/ ep.x < center.x

\* The fast reject against the rectangle inflated by the radius.
FastReject(self, c) ==
    LET r == vector(c.radius, c.radius)
        center == c.center
        origin == Point_sub_Vector(self.origin, r)
        ep == Point_add_Vector(endpoint(self), r)
    IN  \/ origin.x > center.x
        \/ origin.y > center.y
        \/ ep.x < center.x
        \/ ep.y < center.y

\* Mutant: the corner checks reject with > (corner tangency crosses).
Rect_is_crossing_Circle_Inclusive(self, c) ==
    IF FastReject(self, c) THEN FALSE
    ELSE
    LET center == c.center
        origin == self.origin
        ep == endpoint(self)
        rr == c.radius * c.radius
        dx1 == origin.x - center.x
        dy1 == origin.y - center.y
        dx2 == ep.x - center.x
        dy3 == ep.y - center.y
    IN  IF origin.x > center.x /\ origin.y > center.y /\ dx1 * dx1 + dy1 * dy1 > rr
        THEN FALSE
        ELSE IF ep.x < center.x /\ origin.y > center.y /\ dx2 * dx2 + dy1 * dy1 > rr
        THEN FALSE
        ELSE IF origin.x > center.x /\ ep.y < center.y /\ dx1 * dx1 + dy3 * dy3 > rr
        THEN FALSE
        ELSE IF ep.x < center.x /\ ep.y < center.y /\ dx2 * dx2 + dy3 * dy3 > rr
        THEN FALSE
        ELSE TRUE

Rect_is_crossing_Circle(self, c) ==
    IF FastReject(self, c) THEN FALSE
    ELSE
    LET center == c.center
        origin == self.origin
        ep == endpoint(self)
        rr == c.radius * c.radius
        dx1 == origin.x - center.x
        dy1 == origin.y - center.y
        dx2 == ep.x - center.x
        dx3 == origin.x - center.x
        dy3 == ep.y - center.y
        dx4 == ep.x - center.x
    IN  IF origin.x > center.x /\ origin.y > center.y /\ dx1 * dx1 + dy1 * dy1 >= rr
        THEN FALSE
        ELSE IF ep.x < center.x /\ origin.y > center.y /\ dx2 * dx2 + dy1 * dy1 >= rr
        THEN FALSE
        ELSE IF origin.x > center.x /\ ep.y < center.y /\ dx3 * dx3 + dy3 * dy3 >= rr
        THEN FALSE
        ELSE IF ep.x < center.x /\ ep.y < center.y /\ dx4 * dx4 + dy3 * dy3 >= rr
        THEN FALSE
        ELSE TRUE

\* Mutant: the bottom of the circle's bounding box is not compared.
Rect_contains_Circle_NoBottom(self, v) ==
    LET ep == endpoint(self)
        left == v.center.x - v.radius
        right == v.center.x + v.radius
        top == v.center.y - v.radius
    IN  /\ left >= self.origin.x
        /\ right <= ep.x
        /\ top >= self.origin.y

Rect_contains_Circle(self, v) ==
    LET ep == endpoint(self)
        left == v.center.x - v.radius
        right == v.center.x + v.radius
        top == v.center.y - v.radius
        bottom == v.center.y + v.radius
    IN  /\ left >= self.origin.x
        /\ right <= ep.x
        /\ top >= self.origin.y
        /\ bottom <= ep.y

\* impl Collision<Rect<T>> for Circle<T>
Circle_is_crossing_Rect(self, rc) == Rect_is_crossing_Circle(rc, self)

Circle_contains_Rect(self, v) ==
    /\ Circle_is_crossing_Point(self, v.origin)
    /\ Circle_is_crossing_Point(self, endpoint(v))

\* The free functions is_crossing / contains: static dispatch on the pair of
\* kinds to the impl block of that pair.
is_crossing(a, b) ==
    CASE a.kind = "Circle" /\ b.kind = "Point"  -> Circle_is_crossing_Point(a, b)
      [] a.kind = "Point"  /\ b.kind = "Circle" -> Point_is_crossing_Circle(a, b)
      [] a.kind = "Circle" /\ b.kind = "Circle" -> Circle_is_crossing_Circle(a, b)
      [] a.kind = "Point"  /\ b.kind = "Rect"   -> Point_is_crossing_Rect(a, b)
      [] a.kind = "Rect"   /\ b.kind = "Point"  -> Rect_is_crossing_Point(a, b)
      [] a.kind = "Rect"   /\ b.kind = "Rect"   -> Rect_is_crossing_Rect(a, b)
      [] a.kind = "Rect"   /\ b.kind = "Circle" -> Rect_is_crossing_Circle(a, b)
      [] a.kind = "Circle" /\ b.kind = "Rect"   -> Circle_is_crossing_Rect(a, b)

contains(outer, inner) ==
    CASE outer.kind = "Circle" /\ inner.kind = "Point"  -> Circle_contains_Point(outer, inner)
      [] outer.kind = "Point"  /\ inner.kind = "Circle" -> Point_contains_Circle(outer, inner)
      [] outer.kind = "Circle" /\ inner.kind = "Circle" -> Circle_contains_Circle(outer, inner)
      [] outer.kind = "Point"  /\ inner.kind = "Rect"   -> Point_contains_Rect(outer, inner)
      [] outer.kind = "Rect"   /\ inner.kind = "Point"  -> Rect_contains_Point(outer, inner)
      [] outer.kind = "Rect"   /\ inner.kind = "Rect"   -> Rect_contains_Rect(outer, inner)
      [] outer.kind = "Rect"   /\ inner.kind = "Circle" -> Rect_contains_Circle(outer, inner)
      [] outer.kind = "Circle" /\ inner.kind = "Rect"   -> Circle_contains_Rect(outer, inner)

----------------------------------------------------------------------------
\* The state machine

Shapes == Points \cup Circles \cup Rects

\* Point/Point is the one pair of kinds with no impl block.
Implemented(a, b) == ~(a.kind = "Point" /\ b.kind = "Point")

Init ==
    /\ lhs \in Shapes
    /\ rhs \in Shapes
    /\ Implemented(lhs, rhs)
    /\ op = "none"
    /\ result = FALSE

Apply(lk, rk, name, value) ==
    /\ op = "none"
    /\ lhs.kind = lk
    /\ rhs.kind = rk
    /\ op' = name
    /\ result' = value
    /\ UNCHANGED <<lhs, rhs>>

CirclePointIsCrossing ==
    Apply("Circle", "Point", "is_crossing", Circle_is_crossing_Point(lhs, rhs))

CirclePointContains ==
    Apply("Circle", "Point", "contains", Circle_contains_Point(lhs, rhs))

PointCircleIsCrossing ==
    Apply("Point", "Circle", "is_crossing", Point_is_crossing_Circle(lhs, rhs))

PointCircleContains ==
    Apply("Point", "Circle", "contains", Point_contains_Circle(lhs, rhs))

CircleCircleIsCrossing ==
    Apply("Circle", "Circle", "is_crossing", Circle_is_crossing_Circle(lhs, rhs))

CircleCircleContains ==
    Apply("Circle", "Circle", "contains", Circle_contains_Circle(lhs, rhs))

PointRectIsCrossing ==
    Apply("Point", "Rect", "is_crossing", Point_is_crossing_Rect(lhs, rhs))

PointRectContains ==
    Apply("Point", "Rect", "contains", Point_contains_Rect(lhs, rhs))

RectPointIsCrossing ==
    Apply("Rect", "Point", "is_crossing", Rect_is_crossing_Point(lhs, rhs))

RectPointContains ==
    Apply("Rect", "Point", "contains", Rect_contains_Point(lhs, rhs))

RectRectIsCrossing ==
    Apply("Rect", "Rect", "is_crossing", Rect_is_crossing_Rect(lhs, rhs))

RectRectContains ==
    Apply("Rect", "Rect", "contains", Rect_contains_Rect(lhs, rhs))

RectCircleIsCrossing ==
    Apply("Rect", "Circle", "is_crossing", Rect_is_crossing_Circle(lhs, rhs))

RectCircleContains ==
    Apply("Rect", "Circle", "contains", Rect_contains_Circle(lhs, rhs))

CircleRectIsCrossing ==
    Apply("Circle", "Rect", "is_crossing", Circle_is_crossing_Rect(lhs, rhs))

CircleRectContains ==
    Apply("Circle", "Rect", "contains", Circle_contains_Rect(lhs, rhs))

Next ==
    \/ CirclePointIsCrossing
    \/ CirclePointContains
    \/ PointCircleIsCrossing
    \/ PointCircleContains
    \/ CircleCircleIsCrossing
    \/ CircleCircleContains
    \/ PointRectIsCrossing
    \/ PointRectContains
    \/ RectPointIsCrossing
    \/ RectPointContains
    \/ RectRectIsCrossing
    \/ RectRectContains
    \/ RectCircleIsCrossing
    \/ RectCircleContains
    \/ CircleRectIsCrossing
    \/ CircleRectContains

Spec == Init /\ [][Next]_vars

TypeOK ==
    /\ lhs \in Shapes
    /\ rhs \in Shapes
    /\ op \in {"none", "is_crossing", "contains"}
    /\ result \in BOOLEAN

----------------------------------------------------------------------------
\* Rect::from_points: a second state machine, on pairs of points

\* Mutant: the two points are taken as origin and far corner as given.
Rect_from_points_Unordered(a, b) ==
    LET t == Point(a.x, a.y)
        u == Point(b.x, b.y)
    IN  Rect(t, Size_from_Vector(Point_sub_Point(u, t)))

\* rect.rs: Rect::from_points
Rect_from_points(a, b) ==
    LET xs == IF a.x < b.x THEN <<a.x, b.x>> ELSE <<b.x, a.x>>
        ys == IF a.y < b.y THEN <<a.y, b.y>> ELSE <<b.y, a.y>>
        t == Point(xs[1], ys[1])
        u == Point(xs[2], ys[2])
    IN  Rect(t, Size_from_Vector(Point_sub_Point(u, t)))

InitFromPoints ==
    /\ lhs \in Points
    /\ rhs \in Points
    /\ op = "none"
    /\ result = FALSE

FromPoints ==
    /\ op = "none"
    /\ lhs.kind = "Point"
    /\ rhs.kind = "Point"
    /\ op' = "from_points"
    /\ result' = Rect_from_points(lhs, rhs)
    /\ UNCHANGED <<lhs, rhs>>

NextFromPoints == FromPoints

SpecFromPoints == InitFromPoints /\ [][NextFromPoints]_vars

----------------------------------------------------------------------------
\* translate: a third state machine, moving both shapes of a pair

\* Displacement components -MaxShift..MaxShift.
MaxShift == 1

Displacements == {Vector(dx, dy) : dx \in (-MaxShift)..MaxShift, dy \in (-MaxShift)..MaxShift}

\* point.rs: point + d on a point shape
Point_translate(self, d) ==
    LET p == Point_add_Vector(Point(self.x, self.y), d)
    IN  PointShape(p.x, p.y)

\* circle.rs: Circle::translate
Circle_translate(self, v) == Circle(Point_add_Vector(self.center, v), self.radius)

\* Mutant: the displacement is added to the size as well.
Rect_translate_Resizing(self, d) ==
    Rect(Point_add_Vector(self.origin, d),
         Size(self.size.width + d.x, self.size.height + d.y))

\* rect.rs: Rect::translate
Rect_translate(self, d) == Rect(Point_add_Vector(self.origin, d), self.size)

translate(s, d) ==
    CASE s.kind = "Point"  -> Point_translate(s, d)
      [] s.kind = "Circle" -> Circle_translate(s, d)
      [] s.kind = "Rect"   -> Rect_translate(s, d)

InitTranslate ==
    /\ lhs \in Shapes
    /\ rhs \in Shapes
    /\ Implemented(lhs, rhs)
    /\ op = "none"
    /\ result = FALSE

TranslateBoth ==
    /\ op = "none"
    /\ \E d \in Displacements :
          /\ lhs' = translate(lhs, d)
          /\ rhs' = translate(rhs, d)
    /\ op' = "translate"
    /\ UNCHANGED result

NextTranslate == TranslateBoth

SpecTranslate == InitTranslate /\ [][NextTranslate]_vars

----------------------------------------------------------------------------
\* Properties

IsPair(lk, rk) == lhs.kind = lk /\ rhs.kind = rk

Sq(v) == v * v

\* Squared distance between two points.
Dist2(p, q) == Sq(p.x - q.x) + Sq(p.y - q.y)

Clamp(v, lo, hi) == IF v < lo THEN lo ELSE IF v > hi THEN hi ELSE v

\* The point of the rectangle rc closest to p (rc of non-negative size).
Closest(rc, p) ==
    Point(Clamp(p.x, rc.origin.x, rc.origin.x + rc.size.width),
          Clamp(p.y, rc.origin.y, rc.origin.y + rc.size.height))

NonNegativeSize(rc) == rc.size.width >= 0 /\ rc.size.height >= 0

NonDegenerate(s) ==
    CASE s.kind = "Point"  -> TRUE
      [] s.kind = "Circle" -> s.radius > 0
      [] s.kind = "Rect"   -> s.size.width > 0 /\ s.size.height > 0

\* C1: is_crossing is symmetric: whatever the pair of kinds, the value returned
\* for (lhs, rhs) is the value is_crossing returns for (rhs, lhs).
C1_Symmetry == op = "is_crossing" => result = is_crossing(rhs, lhs)

\* Two different circles of different radii that cross.
C1_Witness ==
    /\ op = "is_crossing"
    /\ IsPair("Circle", "Circle")
    /\ lhs.center # rhs.center
    /\ lhs.radius # rhs.radius
    /\ result

\* C2: for a rectangle of non-negative size and a circle of non-negative
\* radius, is_crossing(rect, circle) is true exactly when the squared distance
\* from the centre to the closest point of the rectangle is <= radius squared.
C2_ClampEquivalence ==
    (/\ op = "is_crossing"
     /\ IsPair("Rect", "Circle")
     /\ NonNegativeSize(lhs)
     /\ rhs.radius >= 0)
    => result = (Dist2(rhs.center, Closest(lhs, rhs.center)) <= Sq(rhs.radius))

\* C3 as stated: containment implies crossing for any outer shape and any
\* non-degenerate inner shape.
C3_ContainsImpliesCrossing_AnyOuter ==
    (op = "contains" /\ result /\ NonDegenerate(rhs)) => is_crossing(lhs, rhs)

\* C3 (amended): containment implies crossing for a non-degenerate inner shape
\* when the outer shape, if it is a circle, has a non-negative radius.
C3_ContainsImpliesCrossing ==
    (/\ op = "contains"
     /\ result
     /\ NonDegenerate(rhs)
     /\ (lhs.kind = "Circle" => lhs.radius >= 0))
    => is_crossing(lhs, rhs)

\* A circle of non-negative radius contains a non-degenerate rectangle.
C3_Witness ==
    /\ op = "contains"
    /\ result
    /\ IsPair("Circle", "Rect")
    /\ NonDegenerate(rhs)
    /\ lhs.radius >= 0

\* C4 as stated: is_crossing(C, C) and is_crossing(R, R) are true for every
\* circle and every rectangle, negative size components included.
C4_Reflexive_AnySize ==
    (op = "is_crossing" /\ lhs = rhs) => result

\* C4 (amended): is_crossing(C, C) is true for every circle, and
\* is_crossing(R, R) is true for every rectangle of non-negative width and
\* height.
C4_Reflexive ==
    (/\ op = "is_crossing"
     /\ lhs = rhs
     /\ (lhs.kind = "Rect" => NonNegativeSize(lhs)))
    => result

\* A zero-width rectangle crossed with itself.
C4_Witness ==
    /\ op = "is_crossing"
    /\ lhs = rhs
    /\ lhs.kind = "Rect"
    /\ lhs.size.width = 0
    /\ lhs.size.height > 0
    /\ result

\* C5: for circles of non-negative radii, contains(outer, inner) is true iff
\* r_outer >= r_inner and the squared distance of the centres is
\* <= (r_outer - r_inner) squared.
C5_CircleContainsCircle ==
    (/\ op = "contains"
     /\ IsPair("Circle", "Circle")
     /\ lhs.radius >= 0
     /\ rhs.radius >= 0)
    => result = (/\ lhs.radius >= rhs.radius
                 /\ Dist2(lhs.center, rhs.center) <= Sq(lhs.radius - rhs.radius))

\* C6: for a circle of non-negative radius and a rectangle of non-negative
\* size, contains(circle, rect) is true iff all four corners of the rectangle
\* are at squared distance <= radius squared from the centre.
C6_CircleContainsRect ==
    (/\ op = "contains"
     /\ IsPair("Circle", "Rect")
     /\ lhs.radius >= 0
     /\ NonNegativeSize(rhs))
    => LET x0 == rhs.origin.x
           y0 == rhs.origin.y
           x1 == rhs.origin.x + rhs.size.width
           y1 == rhs.origin.y + rhs.size.height
       IN  result = (\A q \in {Point(x0, y0), Point(x1, y1), Point(x1, y0), Point(x0, y1)} :
                        Dist2(lhs.center, q) <= Sq(lhs.radius))

\* C7: contains(rect, circle) is true iff center +- radius lies within
\* [origin, origin + size] on both axes.
C7_RectContainsCircle ==
    (op = "contains" /\ IsPair("Rect", "Circle"))
    => result = (/\ rhs.center.x - rhs.radius >= lhs.origin.x
                 /\ rhs.center.x + rhs.radius <= lhs.origin.x + lhs.size.width
                 /\ rhs.center.y - rhs.radius >= lhs.origin.y
                 /\ rhs.center.y + rhs.radius <= lhs.origin.y + lhs.size.height)

\* A circle inscribed in a square is contained.
C7_Witness ==
    /\ op = "contains"
    /\ IsPair("Rect", "Circle")
    /\ rhs.radius > 0
    /\ lhs.size.width = 2 * rhs.radius
    /\ lhs.size.height = 2 * rhs.radius
    /\ rhs.center.x = lhs.origin.x + rhs.radius
    /\ rhs.center.y = lhs.origin.y + rhs.radius
    /\ result

\* C8: contains(outer, inner) on rectangles is true iff outer.origin <=
\* inner.origin and outer.endpoint >= inner.endpoint on both axes; a rectangle
\* contains itself, and a rectangle of positive size starting on the outer's
\* far corner is not contained.
C8_RectContainsRect ==
    (op = "contains" /\ IsPair("Rect", "Rect"))
    => /\ result = (/\ lhs.origin.x <= rhs.origin.x
                    /\ lhs.origin.y <= rhs.origin.y
                    /\ lhs.origin.x + lhs.size.width >= rhs.origin.x + rhs.size.width
                    /\ lhs.origin.y + lhs.size.height >= rhs.origin.y + rhs.size.height)
       /\ (lhs = rhs => result)
       /\ (/\ rhs.origin.x = lhs.origin.x + lhs.size.width
           /\ rhs.origin.y = lhs.origin.y + lhs.size.height
           /\ rhs.size.width > 0
           /\ rhs.size.height > 0) => ~result

\* A unit square placed on the far corner of a larger rectangle.
C8_Witness ==
    /\ op = "contains"
    /\ IsPair("Rect", "Rect")
    /\ lhs.size.width > 0
    /\ lhs.size.height > 0
    /\ rhs.origin = endpoint(lhs)
    /\ rhs.size.width > 0
    /\ rhs.size.height > 0
    /\ ~result

\* C9: a point contains nothing: contains(point, circle) and
\* contains(point, rect) are false for every point, circle and rectangle.
C9_PointContainsNothing ==
    (op = "contains" /\ lhs.kind = "Point") => result = FALSE

\* contains was applied to a point and the zero-radius circle centred on it.
C9_Witness ==
    /\ op = "contains"
    /\ IsPair("Point", "Circle")
    /\ rhs.radius = 0
    /\ rhs.center = Point(lhs.x, lhs.y)
    /\ result = FALSE

\* C10: containment of a point coincides with crossing:
\* contains(C, p) = is_crossing(C, p), and
\* contains(R, p) = is_crossing(R, p) = is_crossing(p, R).
C10_ContainsPointIsCrossing ==
    (op = "contains" /\ rhs.kind = "Point")
    => /\ result = is_crossing(lhs, rhs)
       /\ lhs.kind = "Rect" => result = is_crossing(rhs, lhs)

\* A rectangle contains a point of its boundary.
C10_Witness ==
    /\ op = "contains"
    /\ IsPair("Rect", "Point")
    /\ rhs.x = lhs.origin.x + lhs.size.width
    /\ lhs.size.width > 0
    /\ result

\* The circle c with its radius reduced by one unit.
Shrunk(c) == Circle(c.center, c.radius - 1)

\* The centre distance of the two circles equals the sum of their radii.
Touching(a, b) ==
    /\ a.radius + b.radius >= 0
    /\ Dist2(a.center, b.center) = Sq(a.radius + b.radius)

\* C11 as stated: is_crossing on two circles is true iff the squared centre
\* distance is <= (r1 + r2) squared; circles at centre distance exactly r1 + r2
\* cross, and reducing either radius by one from there makes them not cross.
C11_CircleCircle_AnyTouching ==
    (op = "is_crossing" /\ IsPair("Circle", "Circle"))
    => /\ result = (Dist2(lhs.center, rhs.center) <= Sq(lhs.radius + rhs.radius))
       /\ Touching(lhs, rhs)
          => /\ result
             /\ ~Circle_is_crossing_Circle(Shrunk(lhs), rhs)
             /\ ~Circle_is_crossing_Circle(lhs, Shrunk(rhs))

\* C11 (amended): as above, the reduction of a radius making the circles not
\* cross when the touching circles have distinct centres.
C11_CircleCircle ==
    (op = "is_crossing" /\ IsPair("Circle", "Circle"))
    => /\ result = (Dist2(lhs.center, rhs.center) <= Sq(lhs.radius + rhs.radius))
       /\ Touching(lhs, rhs) => result
       /\ (Touching(lhs, rhs) /\ lhs.center # rhs.center)
          => /\ ~Circle_is_crossing_Circle(Shrunk(lhs), rhs)
             /\ ~Circle_is_crossing_Circle(lhs, Shrunk(rhs))

\* Two circles of positive radius touching from outside.
C11_Witness ==
    /\ op = "is_crossing"
    /\ IsPair("Circle", "Circle")
    /\ lhs.radius > 0
    /\ rhs.radius > 0
    /\ lhs.center # rhs.center
    /\ Touching(lhs, rhs)
    /\ result

\* C12: is_crossing on two rectangles is true iff A.origin <= B.endpoint and
\* A.endpoint >= B.origin on both axes; rectangles sharing only an edge or only
\* a corner cross, rectangles with a gap on either axis do not.
C12_RectRect ==
    (op = "is_crossing" /\ IsPair("Rect", "Rect"))
    => LET ao == lhs.origin
           bo == rhs.origin
           ae == Point(lhs.origin.x + lhs.size.width, lhs.origin.y + lhs.size.height)
           be == Point(rhs.origin.x + rhs.size.width, rhs.origin.y + rhs.size.height)
           OverlapX == ao.x <= be.x /\ ae.x >= bo.x
           OverlapY == ao.y <= be.y /\ ae.y >= bo.y
           AbutX == ae.x = bo.x \/ be.x = ao.x
           AbutY == ae.y = bo.y \/ be.y = ao.y
           Gap == ae.x < bo.x \/ be.x < ao.x \/ ae.y < bo.y \/ be.y < ao.y
       IN  /\ result = (OverlapX /\ OverlapY)
           /\ (NonNegativeSize(lhs) /\ NonNegativeSize(rhs) /\ AbutX /\ OverlapY) => result
           /\ (NonNegativeSize(lhs) /\ NonNegativeSize(rhs) /\ AbutY /\ OverlapX) => result
           /\ (NonNegativeSize(lhs) /\ NonNegativeSize(rhs) /\ AbutX /\ AbutY) => result
           /\ Gap => ~result

\* Two rectangles of positive size that share exactly one corner.
C12_Witness ==
    /\ op = "is_crossing"
    /\ IsPair("Rect", "Rect")
    /\ NonDegenerate(lhs)
    /\ NonDegenerate(rhs)
    /\ rhs.origin = endpoint(lhs)
    /\ result

\* C13: is_crossing(point, rect) is true iff origin <= point <= origin + size
\* on both axes; a point on an edge or corner of the rectangle satisfies
\* is_crossing and contains, a point one unit outside any edge neither.
C13_PointRect ==
    (op = "is_crossing" /\ IsPair("Point", "Rect"))
    => LET x0 == rhs.origin.x
           y0 == rhs.origin.y
           x1 == rhs.origin.x + rhs.size.width
           y1 == rhs.origin.y + rhs.size.height
           InX == x0 <= lhs.x /\ lhs.x <= x1
           InY == y0 <= lhs.y /\ lhs.y <= y1
           OnBoundary == /\ InX
                         /\ InY
                         /\ (lhs.x = x0 \/ lhs.x = x1 \/ lhs.y = y0 \/ lhs.y = y1)
           OneOutside == \/ lhs.x = x0 - 1
                         \/ lhs.x = x1 + 1
                         \/ lhs.y = y0 - 1
                         \/ lhs.y = y1 + 1
       IN  /\ result = (InX /\ InY)
           /\ OnBoundary => (result /\ contains(rhs, lhs))
           /\ (NonNegativeSize(rhs) /\ OneOutside) => (~result /\ ~contains(rhs, lhs))

\* A point on the far corner of a rectangle of positive size.
C13_Witness ==
    /\ op = "is_crossing"
    /\ IsPair("Point", "Rect")
    /\ NonDegenerate(rhs)
    /\ Point(lhs.x, lhs.y) = endpoint(rhs)
    /\ result

\* C14: is_crossing(circle, point) is true iff the squared distance from the
\* centre to the point is <= radius squared; a point at distance equal to the
\* radius crosses and is contained, a point farther than the radius is neither.
C14_CirclePoint ==
    (op = "is_crossing" /\ IsPair("Circle", "Point"))
    => /\ result = (Dist2(lhs.center, rhs) <= Sq(lhs.radius))
       /\ (lhs.radius >= 0 /\ Dist2(lhs.center, rhs) = Sq(lhs.radius))
          => (result /\ contains(lhs, rhs))
       /\ (lhs.radius >= 0 /\ Dist2(lhs.center, rhs) > Sq(lhs.radius))
          => (~result /\ ~contains(lhs, rhs))

\* A point on the circumference of a circle of positive radius.
C14_Witness ==
    /\ op = "is_crossing"
    /\ IsPair("Circle", "Point")
    /\ lhs.radius > 0
    /\ Dist2(lhs.center, rhs) = Sq(lhs.radius)
    /\ result

\* The value the applied method returns on the pair (a, b).
Value(o, a, b) == IF o = "is_crossing" THEN is_crossing(a, b) ELSE contains(a, b)

\* The shape s with its radius negated when it is a circle.
Negated(s) == IF s.kind = "Circle" THEN Circle(s.center, 0 - s.radius) ELSE s

Applied == op \in {"is_crossing", "contains"}

\* C15 as stated: in every predicate that takes a circle, replacing a
\* circle's radius r by -r leaves the returned boolean unchanged.
C15_NegativeRadius_AnyPredicate ==
    (Applied /\ (lhs.kind = "Circle" \/ rhs.kind = "Circle"))
    => /\ result = Value(op, Negated(lhs), rhs)
       /\ result = Value(op, lhs, Negated(rhs))

\* The predicates that use the radius only through its square.
RadiusSquaredOnly ==
    \/ IsPair("Circle", "Point")
    \/ IsPair("Point", "Circle")
    \/ IsPair("Circle", "Rect") /\ op = "contains"

\* C15 (amended): in is_crossing and contains of Circle/Point, in is_crossing
\* and contains of Point/Circle and in contains(circle, rect), replacing the
\* circle's radius r by -r leaves the returned boolean unchanged.
C15_NegativeRadius ==
    (Applied /\ RadiusSquaredOnly)
    => /\ result = Value(op, Negated(lhs), rhs)
       /\ result = Value(op, lhs, Negated(rhs))

\* A circle of negative radius crosses a point other than its centre.
C15_Witness ==
    /\ op = "is_crossing"
    /\ IsPair("Circle", "Point")
    /\ lhs.radius < 0
    /\ lhs.center # Point(rhs.x, rhs.y)
    /\ result

\* The centre p lies strictly beyond both boundaries of one corner of rc, at
\* squared distance >= rr from that corner.
BeyondCorner(rc, p, rr) ==
    LET x0 == rc.origin.x
        y0 == rc.origin.y
        x1 == rc.origin.x + rc.size.width
        y1 == rc.origin.y + rc.size.height
    IN  \/ p.x < x0 /\ p.y < y0 /\ Dist2(p, Point(x0, y0)) >= rr
        \/ p.x > x1 /\ p.y < y0 /\ Dist2(p, Point(x1, y0)) >= rr
        \/ p.x < x0 /\ p.y > y1 /\ Dist2(p, Point(x0, y1)) >= rr
        \/ p.x > x1 /\ p.y > y1 /\ Dist2(p, Point(x1, y1)) >= rr

\* C16: in is_crossing(rect, circle), when the centre lies strictly beyond both
\* boundaries of a corner and the squared distance to that corner is
\* >= radius squared, the result is false; a circle exactly tangent to a
\* corner does not cross.
C16_CornerRejection ==
    (/\ op = "is_crossing"
     /\ IsPair("Rect", "Circle")
     /\ BeyondCorner(lhs, rhs.center, Sq(rhs.radius)))
    => result = FALSE

\* A circle exactly tangent to a corner, inside the inflated box.
C16_Witness ==
    /\ op = "is_crossing"
    /\ IsPair("Rect", "Circle")
    /\ NonNegativeSize(lhs)
    /\ rhs.radius > 0
    /\ ~FastReject(lhs, rhs)
    /\ rhs.center.x < lhs.origin.x
    /\ rhs.center.y < lhs.origin.y
    /\ Dist2(rhs.center, lhs.origin) = Sq(rhs.radius)
    /\ result = FALSE

\* C17: in is_crossing(rect, circle), a centre outside the rectangle inflated
\* by the radius on all sides gives false.
C17_FastReject ==
    (/\ op = "is_crossing"
     /\ IsPair("Rect", "Circle")
     /\ \/ rhs.center.x < lhs.origin.x - rhs.radius
        \/ rhs.center.x > lhs.origin.x + lhs.size.width + rhs.radius
        \/ rhs.center.y < lhs.origin.y - rhs.radius
        \/ rhs.center.y > lhs.origin.y + lhs.size.height + rhs.radius)
    => result = FALSE

\* The centre is within the inflated span on x, in no corner region, and
\* outside the inflated box on y.
C17_Witness ==
    /\ op = "is_crossing"
    /\ IsPair("Rect", "Circle")
    /\ NonNegativeSize(lhs)
    /\ rhs.radius > 0
    /\ rhs.center.x >= lhs.origin.x
    /\ rhs.center.x <= lhs.origin.x + lhs.size.width
    /\ rhs.center.y > lhs.origin.y + lhs.size.height + rhs.radius
    /\ result = FALSE

\* C18: circle-contains-circle is order-insensitive:
\* contains(A, B) = contains(B, A) for all circles A and B.
C18_ContainsOrderInsensitive ==
    (op = "contains" /\ IsPair("Circle", "Circle"))
    => result = Circle_contains_Circle(rhs, lhs)

\* A smaller circle "contains" a larger concentric one.
C18_Witness ==
    /\ op = "contains"
    /\ IsPair("Circle", "Circle")
    /\ lhs.radius >= 0
    /\ rhs.radius > lhs.radius
    /\ result

NegativeSize(rc) == rc.size.width < 0 \/ rc.size.height < 0

\* C19: for a rectangle with a negative width or height, is_crossing(point,
\* rect), is_crossing(rect, point) and contains(rect, point) are false for
\* every point.
C19_NegativeSizeRect ==
    /\ (Applied /\ IsPair("Rect", "Point") /\ NegativeSize(lhs)) => result = FALSE
    /\ (op = "is_crossing" /\ IsPair("Point", "Rect") /\ NegativeSize(rhs))
       => result = FALSE

\* contains was applied to a rectangle of negative width and a point between
\* its endpoint and its origin.
C19_Witness ==
    /\ op = "contains"
    /\ IsPair("Rect", "Point")
    /\ lhs.size.width < 0
    /\ lhs.size.height >= 0
    /\ rhs.x >= lhs.origin.x + lhs.size.width
    /\ rhs.x <= lhs.origin.x
    /\ rhs.y = lhs.origin.y
    /\ result = FALSE

Min(a, b) == IF a <= b THEN a ELSE b

Max(a, b) == IF a >= b THEN a ELSE b

\* C20: Rect::from_points(a, b) has the componentwise minimum of a and b as
\* origin and the componentwise maximum as endpoint(), so its width and height
\* are never negative, and from_points(a, b) = from_points(b, a).
C20_FromPoints ==
    op = "from_points"
    => /\ result.origin = Point(Min(lhs.x, rhs.x), Min(lhs.y, rhs.y))
       /\ endpoint(result) = Point(Max(lhs.x, rhs.x), Max(lhs.y, rhs.y))
       /\ result.size.width >= 0
       /\ result.size.height >= 0
       /\ result = Rect_from_points(rhs, lhs)

\* from_points applied to two points given in opposite orders on the two axes.
C20_Witness ==
    /\ op = "from_points"
    /\ lhs.x > rhs.x
    /\ lhs.y < rhs.y
    /\ result.size.width = lhs.x - rhs.x
    /\ result.size.height = rhs.y - lhs.y

\* The centre of the circle c as a point shape.
CentreOf(c) == PointShape(c.center.x, c.center.y)

\* C21: a circle of radius 0 centred at p crosses exactly what the point p
\* crosses: is_crossing(R, circle(p, 0)) = is_crossing(R, p) for every
\* rectangle R and is_crossing(C, circle(p, 0)) = is_crossing(C, p) for every
\* circle C.
C21_ZeroRadiusIsPoint ==
    (/\ op = "is_crossing"
     /\ rhs.kind = "Circle"
     /\ rhs.radius = 0
     /\ lhs.kind \in {"Rect", "Circle"})
    => result = is_crossing(lhs, CentreOf(rhs))

\* A zero-radius circle on the far corner of a rectangle of positive size.
C21_Witness ==
    /\ op = "is_crossing"
    /\ IsPair("Rect", "Circle")
    /\ rhs.radius = 0
    /\ NonDegenerate(lhs)
    /\ rhs.center = endpoint(lhs)
    /\ result

\* The centre / origin / coordinates of a shape.
Position(s) ==
    CASE s.kind = "Point"  -> Point(s.x, s.y)
      [] s.kind = "Circle" -> s.center
      [] s.kind = "Rect"   -> s.origin

\* The shape t is the shape s with only its position possibly changed.
SameExtent(s, t) ==
    /\ t.kind = s.kind
    /\ s.kind = "Circle" => t.radius = s.radius
    /\ s.kind = "Rect" => t.size = s.size

\* C22: translating both shapes of a pair by the same displacement changes
\* neither is_crossing nor contains of the pair; translate moves the centre /
\* origin by the displacement and leaves radius and size unchanged.
C22_TranslationInvariant ==
    [][(op = "none" /\ op' = "translate")
       => /\ is_crossing(lhs', rhs') = is_crossing(lhs, rhs)
          /\ contains(lhs', rhs') = contains(lhs, rhs)
          /\ SameExtent(lhs, lhs')
          /\ SameExtent(rhs, rhs')
          /\ \E d \in Displacements :
                /\ Position(lhs') = Point(Position(lhs).x + d.x, Position(lhs).y + d.y)
                /\ Position(rhs') = Point(Position(rhs).x + d.x, Position(rhs).y + d.y)]_vars

\* A circle moved off the coordinate range together with a rectangle of
\* positive size that it crosses and contains.
C22_Witness ==
    /\ op = "translate"
    /\ IsPair("Circle", "Rect")
    /\ lhs.center.x < 0
    /\ rhs.origin.y > MaxCoord
    /\ NonDegenerate(rhs)
    /\ is_crossing(lhs, rhs)
    /\ contains(lhs, rhs)

====
